---- MODULE Spec2Model ----
(***************************************************************************)
(* A model of stock-monitor (src/app.py): the provider adapters and the    *)
(* shared cleaning routine of DataFetcher, the metrics extraction, the     *)
(* cached orchestrator fetch_index_data, and the page run of main() with   *)
(* the threshold / journal store (st.session_state.db) and its file.       *)
(*                                                                         *)
(* Conventions.  TLA+ strings are ASCII, so the Chinese literals of the    *)
(* source are written in pinyin: "ZhongGaiHuLian" is the index name        *)
(* 中概互联, "riqi" is the column label 日期, "shoupan" 收盘, "zuigao" 最高,  *)
(* "zuidi" 最低.  A calendar date is an integer (a larger number is a later  *)
(* date); a price is a natural number.  A text is a sequence of one-letter *)
(* strings, so that str.startswith and str.replace are computed.           *)
(***************************************************************************)
EXTENDS Integers, Sequences, FiniteSets, TLC

VARIABLES
    \* ---- pure data pipeline (SpecData) ----
    adapter,      \* which provider adapter is being exercised
    df,           \* the provider's raw table (RawTable)
    series,       \* the frame handed to _extract_metrics, or a failure
    metrics,      \* what the adapter returned
    stage,        \* "raw" -> "cleaned" -> "done"
    \* ---- one call of fetch_index_data on arbitrary arguments (SpecRoute) ----
    rq,           \* the call: name, symbol, credential, provider responses
    routed,       \* what the call did: adapters invoked and the result
    \* ---- the application (Spec, SpecStore) ----
    token,        \* Config.TUSHARE_TOKEN is non-empty
    pro,          \* TushareClient._instance is a client
    cache,        \* st.cache_data's entries of fetch_index_data, per index
    now,          \* the clock, in seconds
    db,           \* st.session_state.db
    disk,         \* the content of Config.DATA_FILE
    pc,           \* where the script run of main() stands
    idx,          \* the index the loop of main() is at
    fired,        \* the widget interaction handled in this run (NoEvent: none yet)
    page,         \* the names whose card the last complete page showed
    shown,        \* what this run rendered for each index
    editMode,     \* st.session_state[edit_mode_<name>_note_<idx>] is set
    served,       \* history: per index, what the last call returned and when
                  \*          the adapters were last invoked for it
    flushed,      \* history: per index, the cache was cleared since that call
    lastFetch,    \* history: the most recent call, with served and flushed
                  \*          of its index as they were before it, and whether
                  \*          the adapters would have delivered metrics (live)
    lastWrite     \* history: the outcome of this interaction's DataManager.save, the
                  \*          messages its handler emitted, and the file as the last
                  \*          successful save left it

dataVars == <<adapter, df, series, metrics, stage>>
routeVars == <<rq, routed>>
fetchVars == <<token, pro, cache, now, served, flushed, lastFetch>>
storeVars == <<db, disk, editMode, lastWrite>>
runVars == <<pc, idx, fired, page, shown>>
appVars == <<fetchVars, storeVars, runVars>>
vars == <<dataVars, routeVars, appVars>>

-----------------------------------------------------------------------------
(* Bounds of the model *)

MaxRows == 3

-----------------------------------------------------------------------------
(* Program constants and sentinels *)

LOOKBACK_YEARS == 5

\* pd.Timestamp.now(), in the model's date unit (one unit = one year)
Today == 7

\* pd.to_numeric(errors='coerce') / pd.to_datetime(errors='coerce') yield a
\* null for a cell they cannot parse; a raw cell that cannot be parsed is
\* written as this value too.
NaN == -1

None == [kind |-> "None"]
Raise == [kind |-> "Raise"]

IsMetrics(r) == r.kind = "Metrics"

-----------------------------------------------------------------------------
(* Column labels *)

\* str.lower() on the labels that occur
Lower(c) ==
    CASE c = "Date" -> "date"
      [] c = "Close" -> "close"
      [] c = "High" -> "high"
      [] c = "Low" -> "low"
      [] c = "Latest" -> "latest"
      [] OTHER -> c

\* str.strip() on the labels that occur
Strip(c) ==
    CASE c = " close" -> "close"
      [] OTHER -> c

HasCol(t, c) == \E i \in 1..Len(t.cols) : t.cols[i] = c

ColIdx(t, c) == CHOOSE i \in 1..Len(t.cols) :
    /\ t.cols[i] = c
    /\ \A j \in 1..(i-1) : t.cols[j] # c

Cell(t, r, c) == t.rows[r][ColIdx(t, c)]

\* df.columns = [c.lower() for c in df.columns]
LowerCols(t) == [t EXCEPT !.cols = [i \in 1..Len(t.cols) |-> Lower(t.cols[i])]]

\* df.columns = [c.strip() for c in df.columns]
StripCols(t) == [t EXCEPT !.cols = [i \in 1..Len(t.cols) |-> Strip(t.cols[i])]]

\* df.rename(columns={from: to}, inplace=True)
RenameCol(t, from, to) ==
    [t EXCEPT !.cols = [i \in 1..Len(t.cols) |->
        IF t.cols[i] = from THEN to ELSE t.cols[i]]]

\* the rows kept by a boolean mask, in their order
RECURSIVE FilterRows(_, _)
FilterRows(rows, keep) ==
    IF rows = <<>> THEN <<>>
    ELSE LET rest == FilterRows(Tail(rows), [i \in 1..(Len(rows)-1) |-> keep[i+1]])
         IN  IF keep[1] THEN <<Head(rows)>> \o rest ELSE rest

-----------------------------------------------------------------------------
(* DataFetcher._clean_dataframe *)

Frame(rows) == [kind |-> "Frame", rows |-> rows]

DateLabels == <<"date", "time", "riqi">>

\* cutoff_date = pd.Timestamp.now() - pd.DateOffset(years=LOOKBACK_YEARS)
CutoffDate == Today - LOOKBACK_YEARS

\* next((c for c in df.columns if c in ['date', 'time', '日期']), None)
DateCol(t) ==
    LET hits == {i \in 1..Len(t.cols) : \E k \in 1..Len(DateLabels) : t.cols[i] = DateLabels[k]}
    IN  IF hits = {} THEN "" ELSE t.cols[CHOOSE i \in hits : \A j \in hits : i <= j]

\* One cleaned row: the canonical columns of raw row r.  A missing high or
\* low column is filled from close (lines 149-152).
CleanRow(t, r) ==
    [date  |-> Cell(t, r, "date"),
     close |-> Cell(t, r, "close"),
     high  |-> IF HasCol(t, "high") THEN Cell(t, r, "high") ELSE Cell(t, r, "close"),
     low   |-> IF HasCol(t, "low") THEN Cell(t, r, "low") ELSE Cell(t, r, "close")]

\* A faulty variant: the lookback filter forgotten.
CleanKeepNoFilter(row) == row.date # NaN /\ row.close # NaN

\* Whether a row survives: its date parses (141-142), lies in the lookback
\* window (145-146) and its close parses (154).
CleanKeep(row) == row.date # NaN /\ row.date >= CutoffDate /\ row.close # NaN

RECURSIVE InsertByDate(_, _)
InsertByDate(row, sorted) ==
    IF sorted = <<>> THEN <<row>>
    ELSE IF row.date < Head(sorted).date THEN <<row>> \o sorted
    ELSE <<Head(sorted)>> \o InsertByDate(row, Tail(sorted))

\* A stable ascending sort by date (DataFrame.sort_values).
RECURSIVE SortByDate(_)
SortByDate(rows) ==
    IF rows = <<>> THEN <<>>
    ELSE InsertByDate(rows[Len(rows)], SortByDate(SubSeq(rows, 1, Len(rows) - 1)))

\* The rows of the cleaned frame, in the order the code leaves them: the
\* order of the raw table (the routine never sorts).
CleanRows(t) ==
    LET all == [r \in 1..Len(t.rows) |-> CleanRow(t, r)]
    IN  FilterRows(all, [r \in 1..Len(all) |-> CleanKeep(all[r])])

\* _clean_dataframe: a Frame, or Raise for the KeyError of a table with no
\* date column (line 141) or no close column (line 151).
CleanDataframe(t0) ==
    LET t1 == LowerCols(t0)
        dc == DateCol(t1)
        t  == IF dc = "" THEN t1 ELSE RenameCol(t1, dc, "date")
    IN  IF ~HasCol(t, "date") \/ ~HasCol(t, "close") THEN Raise
        ELSE Frame(CleanRows(t))

-----------------------------------------------------------------------------
(* DataFetcher._extract_metrics *)

\* Series.idxmax() / idxmin(): the first position, in row order, of the
\* extreme value among the cells that are not null; 0 when every cell is
\* null (the lookup that follows then raises).
IdxMax(rows) ==
    LET ok == {i \in 1..Len(rows) : rows[i].high # NaN}
    IN  IF ok = {} THEN 0
        ELSE CHOOSE i \in ok :
                /\ \A j \in ok : rows[j].high <= rows[i].high
                /\ \A j \in ok : j < i => rows[j].high < rows[i].high

IdxMin(rows) ==
    LET ok == {i \in 1..Len(rows) : rows[i].low # NaN}
    IN  IF ok = {} THEN 0
        ELSE CHOOSE i \in ok :
                /\ \A j \in ok : rows[j].low >= rows[i].low
                /\ \A j \in ok : j < i => rows[j].low > rows[i].low

\* A faulty variant: current taken from the first row instead of the last.
CurrentRowFirst(rows) == rows[1]

\* df.iloc[-1]
CurrentRow(rows) == rows[Len(rows)]

\* _extract_metrics(df): None for an empty frame, the metrics dict
\* otherwise; Raise when idxmax / idxmin find no value.
ExtractMetrics(rows) ==
    IF rows = <<>> THEN None
    ELSE IF IdxMax(rows) = 0 \/ IdxMin(rows) = 0 THEN Raise
    ELSE [kind |-> "Metrics",
          cur  |-> CurrentRow(rows).close,
          hv   |-> rows[IdxMax(rows)].high,
          hd   |-> rows[IdxMax(rows)].date,
          lv   |-> rows[IdxMin(rows)].low,
          ld   |-> rows[IdxMin(rows)].date]

-----------------------------------------------------------------------------
(* The provider adapters of DataFetcher.  Each takes the provider's        *)
(* response: Raise (the call failed) or a raw table [cols, rows].          *)

Adapters == {"a_share", "hongkong", "us", "tushare", "etf"}

\* DataFrame.empty
Empty(t) == Len(t.rows) = 0 \/ Len(t.cols) = 0

WithSource(m, src) ==
    [kind |-> "Metrics", cur |-> m.cur, hv |-> m.hv, hd |-> m.hd,
     lv |-> m.lv, ld |-> m.ld, source |-> src]

\* The frame an adapter hands to _extract_metrics (Frame), or None where it
\* returns None before, or Raise where an exception ends its try block.

\* fetch_zhonggai_tushare, lines 179-204
TushareFrame(resp) ==
    IF resp = Raise THEN Raise
    ELSE IF Empty(resp) THEN None
    ELSE IF ~HasCol(resp, "trade_date") THEN Raise
    ELSE LET t == RenameCol(resp, "trade_date", "date")
         IN  IF \E r \in 1..Len(t.rows) : Cell(t, r, "date") = NaN THEN Raise
             ELSE IF ~(HasCol(t, "close") /\ HasCol(t, "high") /\ HasCol(t, "low")) THEN Raise
             ELSE LET all  == SortByDate([r \in 1..Len(t.rows) |-> CleanRow(t, r)])
                      kept == FilterRows(all, [r \in 1..Len(all) |-> all[r].close # NaN])
                  IN  IF kept = <<>> THEN None ELSE Frame(kept)

\* fetch_zhonggai_etf, lines 219-244
EtfFrame(resp) ==
    IF resp = Raise THEN Raise
    ELSE IF Empty(resp) THEN None
    ELSE LET t1 == StripCols(resp)
             t2 == RenameCol(RenameCol(RenameCol(RenameCol(t1,
                       "riqi", "date"), "shoupan", "close"), "zuigao", "high"), "zuidi", "low")
             c  == CleanDataframe(t2)
         IN  IF c = Raise THEN Raise
             ELSE IF c.rows = <<>> THEN None
             ELSE c

\* fetch_hongkong_index, lines 261-273
HongkongFrame(resp) ==
    IF resp = Raise THEN Raise
    ELSE IF Empty(resp) THEN None
    ELSE LET t1 == StripCols(LowerCols(resp))
             t2 == RenameCol(RenameCol(t1, "time", "date"), "latest", "close")
         IN  CleanDataframe(t2)

\* fetch_us_index (284-291) and fetch_a_share_index (302-303)
PlainFrame(resp) ==
    IF resp = Raise THEN Raise ELSE CleanDataframe(resp)

AdapterFrame(a, resp) ==
    CASE a = "tushare"  -> TushareFrame(resp)
      [] a = "etf"      -> EtfFrame(resp)
      [] a = "hongkong" -> HongkongFrame(resp)
      [] OTHER          -> PlainFrame(resp)

\* A faulty variant: the fund adapter labels its result as the official one.
SourceTagOfficial(a, m) ==
    CASE a = "tushare" -> WithSource(m, "Tushare")
      [] a = "etf"     -> WithSource(m, "Tushare")
      [] OTHER         -> m

\* metrics["source"] = ... (lines 207-208, 248-249)
SourceTag(a, m) ==
    CASE a = "tushare" -> WithSource(m, "Tushare")
      [] a = "etf"     -> WithSource(m, "ETF")
      [] OTHER         -> m

\* What the adapter returns for a given frame: every except clause returns
\* None (lines 211-213, 253-255, 276-278, 294-296, 306-308).
AdapterResult(a, f) ==
    IF f.kind # "Frame" THEN None
    ELSE LET m == ExtractMetrics(f.rows)
         IN  IF m.kind # "Metrics" THEN None ELSE SourceTag(a, m)

AdapterReturn(a, resp) == AdapterResult(a, AdapterFrame(a, resp))

-----------------------------------------------------------------------------
(* Provider responses the model draws from *)

\* Logical rows: an in-window run with ties of high and of low on different
\* dates, a row older than the cutoff, a duplicate date with null high and
\* low, an unparseable date, a null close, a row dated after today.
RowPool ==
    { [date |-> 3,   close |-> 5,   high |-> 6,   low |-> 4],
      [date |-> 4,   close |-> 4,   high |-> 6,   low |-> 3],
      [date |-> 5,   close |-> 6,   high |-> 5,   low |-> 3],
      [date |-> 1,   close |-> 9,   high |-> 9,   low |-> 1],
      [date |-> 4,   close |-> 7,   high |-> NaN, low |-> NaN],
      [date |-> NaN, close |-> 5,   high |-> 5,   low |-> 5],
      [date |-> 5,   close |-> NaN, high |-> 8,   low |-> 2],
      [date |-> 8,   close |-> 8,   high |-> 8,   low |-> 8] }

\* Column layouts providers deliver: canonical, capitalised, localized
\* (fund source), the official API's, close-only, and two malformed ones.
Schemas ==
    { <<"date", "close", "high", "low">>,
      <<"Date", "Close", "High", "Low">>,
      <<"riqi", "shoupan", "zuigao", "zuidi">>,
      <<"trade_date", "close", "high", "low">>,
      <<"time", "Latest">>,
      <<"close", "high", "low">>,
      <<"date", "high", "low">> }

\* which logical field a column label carries
Meaning(c) ==
    CASE c \in {"date", "Date", "riqi", "trade_date", "time"} -> "date"
      [] c \in {"close", "Close", "shoupan", "Latest", "latest", " close"} -> "close"
      [] c \in {"high", "High", "zuigao"} -> "high"
      [] OTHER -> "low"

RawTable(cols, lrows) ==
    [cols |-> cols,
     rows |-> [r \in 1..Len(lrows) |-> [k \in 1..Len(cols) |-> lrows[r][Meaning(cols[k])]]]]

RowSeqs == UNION {[1..n -> RowPool] : n \in 0..MaxRows}

Responses == {Raise} \cup {RawTable(c, rs) : c \in Schemas, rs \in RowSeqs}

-----------------------------------------------------------------------------
(* The two steps of an adapter call *)

\* the adapter's fetch and normalisation, up to the call of _extract_metrics
Normalize ==
    /\ stage = "raw"
    /\ series' = AdapterFrame(adapter, df)
    /\ stage' = "cleaned"
    /\ UNCHANGED <<adapter, df, metrics, routeVars, appVars>>

\* _extract_metrics, the source tag and the adapter's return
Extract ==
    /\ stage = "cleaned"
    /\ metrics' = AdapterResult(adapter, series)
    /\ stage' = "done"
    /\ UNCHANGED <<adapter, df, series, routeVars, appVars>>



-----------------------------------------------------------------------------
(* Texts: str.startswith *)

StartsWith(s, p) == Len(s) >= Len(p) /\ SubSeq(s, 1, Len(p)) = p

\* Config.INDEX_GROUPS codes that occur in the model
Code_sh000001 == <<"s", "h", "0", "0", "0", "0", "0", "1">>
Code_H30533 == <<"H", "3", "0", "5", "3", "3">>
Code_hkHSI == <<"h", "k", "H", "S", "I">>
Code_gbINX == <<"g", "b", ".", "I", "N", "X">>

\* the special index, 中概互联 (line 318)
ZHONGGAI == "ZhongGaiHuLian"

-----------------------------------------------------------------------------
(* TushareClient.get_instance and fetch_index_data *)

\* The value of TushareClient._instance after get_instance(): a client is
\* built only when none exists and a token is configured, and building it
\* may fail (lines 115-120).  TRUE stands for a client, FALSE for None.
GetInstance(inst, tok, initOk) ==
    IF ~inst /\ tok THEN initOk ELSE inst

Called(calls, rets, result) == [calls |-> calls, rets |-> rets, result |-> result]

\* A faulty variant: the fund source is asked first, the official one second.
ZhonggaiChainProxyFirst(inst, ret) ==
    LET official == ret["tushare"]
        proxy    == ret["etf"]
    IN  IF IsMetrics(proxy) \/ ~inst
        THEN Called(<<"etf">>, <<proxy>>, proxy)
        ELSE Called(<<"etf", "tushare">>, <<proxy, official>>, official)

\* A faulty variant: with a client, the official answer is returned whatever
\* it is and the fund source is never asked.
ZhonggaiChainOfficialOnly(inst, ret) ==
    LET official == ret["tushare"]
        proxy    == ret["etf"]
    IN  IF inst
        THEN Called(<<"tushare">>, <<official>>, official)
        ELSE Called(<<"etf">>, <<proxy>>, proxy)

\* The special index's chain (lines 319-328).  inst is the value
\* get_instance() returned; ret[a] is what adapter a returns when invoked.
ZhonggaiChain(inst, ret) ==
    LET official == ret["tushare"]
        proxy    == ret["etf"]
    IN  IF inst /\ IsMetrics(official)
        THEN Called(<<"tushare">>, <<official>>, official)
        ELSE IF inst
        THEN Called(<<"tushare", "etf">>, <<official, proxy>>, proxy)
        ELSE Called(<<"etf">>, <<proxy>>, proxy)

\* Which adapter serves an index that is not the special one (lines 331-339).
RouteByCode(symbol) ==
    IF StartsWith(symbol, <<"h", "k">>) THEN "hongkong"
    ELSE IF StartsWith(symbol, <<"g", "b">>) THEN "us"
    ELSE "a_share"

\* The body of fetch_index_data (lines 316-343): the adapters it invokes in
\* order, what each returned and what the function returns.
FetchBody(name, symbol, inst, ret) ==
    LET out == IF name = ZHONGGAI THEN ZhonggaiChain(inst, ret)
               ELSE LET a == RouteByCode(symbol)
                    IN  Called(<<a>>, <<ret[a]>>, ret[a])
    IN  IF out.result = Raise THEN Called(out.calls, out.rets, None) ELSE out

-----------------------------------------------------------------------------
(* Provider responses of the application specifications: per adapter, a    *)
(* failed call, an empty table, a table whose rows are all older than the  *)
(* lookback window, a table without a close column, and two good tables.   *)

GoodRowsA == << [date |-> 3, close |-> 5, high |-> 6, low |-> 4],
                [date |-> 5, close |-> 6, high |-> 5, low |-> 3] >>
GoodRowsB == << [date |-> 4, close |-> 4, high |-> 6, low |-> 3] >>
OldRows   == << [date |-> 1, close |-> 9, high |-> 9, low |-> 1] >>

SchemaOf(a) ==
    CASE a = "tushare" -> <<"trade_date", "close", "high", "low">>
      [] a = "etf"     -> <<"riqi", "shoupan", "zuigao", "zuidi">>
      [] OTHER         -> <<"date", "close", "high", "low">>

Response(a, kind) ==
    CASE kind = "raise"     -> Raise
      [] kind = "empty"     -> RawTable(SchemaOf(a), <<>>)
      [] kind = "old"       -> RawTable(SchemaOf(a), OldRows)
      [] kind = "malformed" -> RawTable(<<"date", "high", "low">>, GoodRowsA)
      [] kind = "goodB"     -> RawTable(SchemaOf(a), GoodRowsB)
      [] OTHER              -> RawTable(SchemaOf(a), GoodRowsA)

ResponseKinds == {"raise", "empty", "old", "malformed", "goodA", "goodB"}

\* what each adapter returns for each kind of answer of its provider
Returns == [a \in Adapters |-> [k \in ResponseKinds |-> AdapterReturn(a, Response(a, k))]]

\* the adapters' returns when the fund source answers k2 and every other
\* provider k1
Answers(k1, k2) == [a \in Adapters |-> Returns[a][IF a = "etf" THEN k2 ELSE k1]]

-----------------------------------------------------------------------------
(* SpecRoute: fetch_index_data called once on arbitrary arguments *)

RouteNames == {ZHONGGAI, "ShangZhengZhiShu"}

RouteCodes ==
    { Code_sh000001, Code_H30533, Code_hkHSI, Code_gbINX,
      <<"g", "b", "X">>, <<"g", "b">>, <<"g">>, <<"h">>, <<"h", "k">>,
      <<"x", "h", "k">>, <<"x", "g", "b", ".">>, <<>> }

NotRouted == [kind |-> "NotRouted"]

\* the value get_instance() returns inside the call
RouteInst == GetInstance(rq.pro, rq.token, rq.initOk)

RouteCall ==
    /\ routed = NotRouted
    /\ LET out == FetchBody(rq.name, rq.symbol, RouteInst,
                            [a \in Adapters |-> AdapterReturn(a, rq.resp[a])])
       IN  routed' = [kind |-> "Routed", calls |-> out.calls, rets |-> out.rets,
                      result |-> out.result]
    /\ UNCHANGED <<rq, dataVars, appVars>>

-----------------------------------------------------------------------------
(* Configuration of the application specifications *)

CACHE_TTL == 600

\* Config.INDEX_GROUPS flattened in iteration order, reduced to two of its
\* entries: a mainland index (上证指数) with its single provider and the
\* special index with its two-provider chain.
INDEX ==
    << [name |-> "ShangZhengZhiShu", code |-> Code_sh000001],
       [name |-> ZHONGGAI,           code |-> Code_H30533] >>

N == Len(INDEX)
Names == {INDEX[i].name : i \in 1..N}
PosOf(name) == CHOOSE i \in 1..N : INDEX[i].name = name

-----------------------------------------------------------------------------
(* DataManager: the persisted document *)

Absent == [file |-> "absent"]
Corrupt == [file |-> "corrupt"]
IsDoc(f) == f.file = "json"

DEFAULT_SUPPORT == 3000
DEFAULT_ATMOSPHERE == 4000

\* default_data of load (lines 78-82)
DefaultData ==
    [supports    |-> [n \in Names |-> DEFAULT_SUPPORT],
     atmospheres |-> [n \in Names |-> DEFAULT_ATMOSPHERE],
     notes       |-> [n \in Names |-> <<>>]]

\* json.dump of a dict whose keys are index names: the members in dict
\* order, which is the order of get_all_index_names (lines 67-72, 78-82).
DumpMap(m) == [i \in 1..N |-> <<INDEX[i].name, m[INDEX[i].name]>>]

\* json.dump of one note and of a list of notes
DumpNote(n) == << <<"date", n.date>>, <<"content", n.content>> >>
DumpNotes(notes) == [j \in 1..Len(notes) |-> DumpNote(notes[j])]

\* json.dump(data, f) (line 100): the document as the text holds it, every
\* object a sequence of members, every list a sequence.
Dump(d) ==
    [file |-> "json",
     text |-> << <<"supports", DumpMap(d.supports)>>,
                 <<"atmospheres", DumpMap(d.atmospheres)>>,
                 <<"notes", DumpMap([n \in DOMAIN d.notes |-> DumpNotes(d.notes[n])])>> >>]

\* json.load of an object: a dict; of a repeated key the last member counts
ParseObject(members) ==
    [k \in {members[i][1] : i \in 1..Len(members)} |->
        members[CHOOSE i \in 1..Len(members) :
                   /\ members[i][1] = k
                   /\ \A j \in (i+1)..Len(members) : members[j][1] # k][2]]

\* A faulty variant: the list of notes is read back in reverse.
ParseNotesReversed(list) == [j \in 1..Len(list) |-> ParseObject(list[Len(list) + 1 - j])]

\* json.load of a list of notes
ParseNotes(list) == [j \in 1..Len(list) |-> ParseObject(list[j])]

\* json.load(f) (line 87)
Parse(f) ==
    LET top == ParseObject(f.text)
    IN  [k \in DOMAIN top |->
            IF k = "notes"
            THEN LET byName == ParseObject(top[k])
                 IN  [n \in DOMAIN byName |-> ParseNotes(byName[n])]
            ELSE ParseObject(top[k])]

\* dict.update
Update(base, over) ==
    [k \in DOMAIN base \cup DOMAIN over |-> IF k \in DOMAIN over THEN over[k] ELSE base[k]]

\* DataManager.load (lines 75-94): the defaults when the file is missing or
\* cannot be parsed, else each saved map merged over its default.
Load(f) ==
    IF ~IsDoc(f) THEN DefaultData
    ELSE LET saved == Parse(f)
         IN  [k \in DOMAIN DefaultData |->
                IF k \in DOMAIN saved THEN Update(DefaultData[k], saved[k])
                ELSE DefaultData[k]]

\* A faulty variant: save writes nothing.
SaveNothing(d, old, outcome) == old

\* DataManager.save (lines 97-103): the file after the call.  open(.., "w")
\* truncates the file before anything is written, so a failure while
\* writing leaves a partial document; a failure to open leaves the file.
Save(d, old, outcome) ==
    CASE outcome = "ok"         -> Dump(d)
      [] outcome = "fail_write" -> Corrupt
      [] OTHER                  -> old

SaveOutcomes == {"ok", "fail_open", "fail_write"}

\* No save in this interaction yet; good is the file as the last successful
\* save (or the start of the program) left it.
NoWrite(good) == [outcome |-> "none", good |-> good, msgs |-> {}]

\* After a handler called save: the except clause of save emits st.error
\* (line 103); extra are the messages the handler emits after the call
\* (st.success at lines 490, 610 and 691), which it does whatever save did.
Wrote(lw, file, outcome, extra) ==
    [outcome |-> outcome,
     good    |-> IF outcome = "ok" THEN file ELSE lw.good,
     msgs    |-> (IF outcome = "ok" THEN {} ELSE {"error"}) \cup extra]

-----------------------------------------------------------------------------
(* The journal and the widgets of UIComponents *)

\* str.strip() on the texts a user types in the model
StripText(c) ==
    CASE c = " " -> ""
      [] c = " a" -> "a"
      [] c = "c " -> "c"
      [] OTHER -> c

RECURSIVE InsertDesc(_, _)
InsertDesc(note, sorted) ==
    IF sorted = <<>> THEN <<note>>
    ELSE IF note.date > Head(sorted).date THEN <<note>> \o sorted
    ELSE <<Head(sorted)>> \o InsertDesc(note, Tail(sorted))

\* list.sort(key=lambda x: x['date'], reverse=True): newest first, entries
\* of one date in the order they had (the sort is stable).
RECURSIVE SortDesc(_)
SortDesc(notes) ==
    IF notes = <<>> THEN <<>>
    ELSE InsertDesc(notes[Len(notes)], SortDesc(SubSeq(notes, 1, Len(notes) - 1)))

\* A faulty variant: whatever the position, the first entry is removed.
PopFirst(notes, i) == Tail(notes)

\* list.pop(idx), positions counted from 1
Pop(notes, i) == SubSeq(notes, 1, i - 1) \o SubSeq(notes, i + 1, Len(notes))

\* A widget interaction.  Every event carries every field.
Ev(type, name, pos, sup, atm, date, content) ==
    [type |-> type, name |-> name, pos |-> pos, sup |-> sup, atm |-> atm,
     date |-> date, content |-> content]

NoEvent == Ev("load", "", 0, 0, 0, 0, "")

Get(map, key, default) == IF key \in DOMAIN map THEN map[key] ELSE default

\* _render_parameters, lines 543-553: the values the two number inputs
\* return, and the store after the automatic save branch.
CurSup(d, name) == Get(d.supports, name, DEFAULT_SUPPORT)
CurAtm(d, name) == Get(d.atmospheres, name, (CurSup(d, name) * 13) \div 10)
NewSup(d, name, ev) ==
    IF ev.type = "threshold" /\ ev.name = name THEN ev.sup ELSE CurSup(d, name)
NewAtm(d, name, ev) ==
    IF ev.type = "threshold" /\ ev.name = name THEN ev.atm ELSE CurAtm(d, name)
ParamChanged(d, name, ev) ==
    NewSup(d, name, ev) # CurSup(d, name) \/ NewAtm(d, name, ev) # CurAtm(d, name)
AfterParameters(d, name, ev) ==
    IF ParamChanged(d, name, ev)
    THEN [d EXCEPT !.supports = Update(@, [k \in {name} |-> NewSup(d, name, ev)]),
                   !.atmospheres = Update(@, [k \in {name} |-> NewAtm(d, name, ev)])]
    ELSE d

\* _render_notes_section, lines 597-606: the submitted form
AddSubmitted(name, ev) ==
    ev.type = "add" /\ ev.name = name /\ StripText(ev.content) # ""
AfterAddNote(d, name, ev) ==
    IF AddSubmitted(name, ev)
    THEN [d EXCEPT !.notes = Update(@, [k \in {name} |->
            SortDesc(Append(Get(d.notes, name, <<>>),
                            [date |-> ev.date, content |-> StripText(ev.content)]))])]
    ELSE d

\* _render_notes_list, lines 621-625: the list is sorted in place on every
\* render
AfterListSort(d, name) ==
    IF name \in DOMAIN d.notes
    THEN [d EXCEPT !.notes[name] = SortDesc(@)]
    ELSE d

\* whether the loop of _render_notes_list reaches the widget of the event
OnEntry(d, name, ev) ==
    /\ ev.name = name
    /\ name \in DOMAIN d.notes
    /\ ev.pos \in 1..Len(d.notes[name])

\* lines 649-658 (delete) and 679-692 (save of an edit)
DeleteClicked(d, name, ev, em) ==
    OnEntry(d, name, ev) /\ ev.type = "delete" /\ <<name, ev.pos>> \notin em
SaveClicked(d, name, ev, em) ==
    /\ OnEntry(d, name, ev) /\ ev.type = "save" /\ <<name, ev.pos>> \in em
    /\ StripText(ev.content) # ""
EditClicked(d, name, ev, em) ==
    OnEntry(d, name, ev) /\ ev.type = "edit" /\ <<name, ev.pos>> \notin em
CancelClicked(d, name, ev, em) ==
    OnEntry(d, name, ev) /\ ev.type = "cancel" /\ <<name, ev.pos>> \in em

AfterNotesList(d, name, ev, em) ==
    IF DeleteClicked(d, name, ev, em)
    THEN [d EXCEPT !.notes[name] = Pop(@, ev.pos)]
    ELSE IF SaveClicked(d, name, ev, em)
    THEN [d EXCEPT !.notes[name][ev.pos].content = StripText(ev.content)]
    ELSE d

\* st.session_state[edit_mode_key] after the list is rendered
EditModeAfter(d, name, ev, em) ==
    IF EditClicked(d, name, ev, em) THEN em \cup {<<name, ev.pos>>}
    ELSE IF SaveClicked(d, name, ev, em) \/ CancelClicked(d, name, ev, em)
    THEN em \ {<<name, ev.pos>>}
    ELSE em

\* st.rerun() is reached (lines 647, 658, 692, 702)
ListReruns(d, name, ev, em) ==
    \/ DeleteClicked(d, name, ev, em) \/ SaveClicked(d, name, ev, em)
    \/ EditClicked(d, name, ev, em) \/ CancelClicked(d, name, ev, em)

-----------------------------------------------------------------------------
(* st.cache_data(ttl=CACHE_TTL) around fetch_index_data *)

NoEntry == [kind |-> "NoEntry"]
Entry(value, stored) == [kind |-> "Entry", value |-> value, stored |-> stored]

\* A faulty variant: an entry is served whatever its age.
FreshForever(e, t) == e # NoEntry

\* A faulty variant: an entry holding None is not served.
FreshUnlessNone(e, t) == e # NoEntry /\ t - e.stored < CACHE_TTL /\ e.value # None

\* A faulty variant: the memo is never consulted.
FreshNever(e, t) == FALSE

\* an entry is served while it is younger than the ttl
Fresh(e, t) == e # NoEntry /\ t - e.stored < CACHE_TTL

\* A faulty variant: the clear drops only the first index's entry.
ClearFirstOnly(c) == [i \in DOMAIN c |-> IF i = 1 THEN NoEntry ELSE c[i]]

\* st.cache_data.clear() (line 485)
ClearCache(c) == [i \in DOMAIN c |-> NoEntry]

-----------------------------------------------------------------------------
(* The script run of main().  Streamlit runs the script from the top after *)
(* every widget interaction; the interaction takes effect where its widget *)
(* is executed, so the model reveals it there: at most one per run.        *)

TICK == 300
MaxTicks == 3
MaxNotes == 2

NoDb == [unset |-> TRUE]
NotYet == [kind |-> "NotYet"]
NoCall == [kind |-> "NoCall"]
NoPage == {"none"}

\* A faulty variant: a failed fetch ends the loop.
AfterFetchAbort(i, result) ==
    IF IsMetrics(result) THEN [pc |-> "card", idx |-> i]
    ELSE [pc |-> "idle", idx |-> 0]

\* lines 862-868: a card for data, an error line and the next index
\* otherwise
AfterFetch(i, result) ==
    IF IsMetrics(result) THEN [pc |-> "card", idx |-> i]
    ELSE IF i < N THEN [pc |-> "fetch", idx |-> i + 1]
    ELSE [pc |-> "idle", idx |-> 0]

AfterCard(i) ==
    IF i < N THEN [pc |-> "fetch", idx |-> i + 1] ELSE [pc |-> "idle", idx |-> 0]

\* the names whose card this run rendered
Cards(sh) == {INDEX[i].name : i \in {j \in 1..N : IsMetrics(sh[j])}}

\* The widget of the interaction was on the last page.
Offered(ev) ==
    CASE ev.type = "load" -> TRUE
      [] ev.type \in {"refresh", "backup"} -> page # NoPage
      [] ev.type = "threshold" ->
            /\ ev.name \in page
            /\ \/ ev.sup # CurSup(db, ev.name) /\ ev.atm = CurAtm(db, ev.name)
               \/ ev.sup = CurSup(db, ev.name) /\ ev.atm # CurAtm(db, ev.name)
      [] ev.type = "add" -> ev.name \in page
      [] ev.type \in {"edit", "delete"} ->
            /\ ev.name \in page
            /\ ev.pos \in 1..Len(db.notes[ev.name])
            /\ <<ev.name, ev.pos>> \notin editMode
      [] OTHER ->
            /\ ev.name \in page
            /\ ev.pos \in 1..Len(db.notes[ev.name])
            /\ <<ev.name, ev.pos>> \in editMode

\* the interaction a step may reveal
Reveals(ev) == ev = NoEvent \/ (fired = NoEvent /\ Offered(ev))

\* A page load or a widget interaction starts a script run.
Rerun ==
    /\ pc = "idle"
    /\ pc' = "start"
    /\ fired' = NoEvent
    /\ lastWrite' = NoWrite(lastWrite.good)
    /\ UNCHANGED <<idx, page, shown, fetchVars, db, disk, editMode, dataVars, routeVars>>

\* A new browser session: st.session_state starts empty, so line 720 finds
\* no db and the edit flags are gone; the memo and the data file outlive it.
NewSession ==
    /\ pc = "idle"
    /\ db # NoDb
    /\ db' = NoDb
    /\ editMode' = {}
    /\ page' = NoPage
    /\ fired' = NoEvent
    /\ pc' = "start"
    /\ lastWrite' = NoWrite(lastWrite.good)
    /\ UNCHANGED <<idx, shown, fetchVars, disk, dataVars, routeVars>>

\* lines 720-721: the store is loaded once per session
Start ==
    /\ pc = "start"
    /\ db' = IF db = NoDb THEN Load(disk) ELSE db
    /\ shown' = [i \in 1..N |-> NotYet]
    /\ pc' = "sidebar"
    /\ UNCHANGED <<idx, fired, page, fetchVars, disk, editMode, lastWrite, dataVars, routeVars>>

\* render_sidebar (lines 445-493)
Sidebar(ev, initOk, outcome) ==
    /\ pc = "sidebar"
    /\ Reveals(ev)
    /\ pro' = GetInstance(pro, token, initOk)
    /\ fired' = IF ev # NoEvent THEN ev ELSE fired
    /\ IF ev.type = "refresh"
       THEN /\ cache' = ClearCache(cache)
            /\ flushed' = [i \in 1..N |-> TRUE]
            /\ pc' = "start"
            /\ UNCHANGED <<idx, disk, lastWrite>>
       ELSE /\ disk' = IF ev.type = "backup" THEN Save(db, disk, outcome) ELSE disk
            /\ lastWrite' = IF ev.type = "backup"
                            THEN Wrote(lastWrite, disk', outcome, {"success"})
                            ELSE lastWrite
            /\ pc' = "fetch"
            /\ idx' = 1
            /\ UNCHANGED <<cache, flushed>>
    /\ UNCHANGED <<token, now, served, lastFetch, db, editMode, shown, page, dataVars, routeVars>>

\* line 863: data = fetch_index_data(index_name, index_code), through the
\* memo.  ret gives, per adapter, what it returns if invoked now.
Fetch(ret, initOk) ==
    /\ pc = "fetch"
    /\ LET name == INDEX[idx].name
           hit  == Fresh(cache[idx], now)
           inst == IF name = ZHONGGAI /\ ~hit THEN GetInstance(pro, token, initOk) ELSE pro
           out  == IF hit THEN Called(<<>>, <<>>, cache[idx].value)
                   ELSE FetchBody(name, INDEX[idx].code, inst, ret)
           nxt  == AfterFetch(idx, out.result)
           live == FetchBody(name, INDEX[idx].code,
                             IF name = ZHONGGAI THEN GetInstance(pro, token, initOk) ELSE pro,
                             ret).result
       IN  /\ pro' = inst
           /\ cache' = IF hit THEN cache
                       ELSE [cache EXCEPT ![idx] = Entry(out.result, now)]
           /\ lastFetch' = [kind |-> "Call", i |-> idx, at |-> now,
                            calls |-> out.calls, result |-> out.result,
                            prior |-> served[idx], flushed |-> flushed[idx],
                            live |-> IsMetrics(live)]
           /\ served' = [served EXCEPT ![idx] =
                            [kind |-> "Call", result |-> out.result,
                             fetchedAt |-> IF out.calls = <<>> /\ served[idx] # NoCall
                                           THEN served[idx].fetchedAt ELSE now]]
           /\ flushed' = [flushed EXCEPT ![idx] = FALSE]
           /\ shown' = [shown EXCEPT ![idx] = out.result]
           /\ pc' = nxt.pc
           /\ idx' = nxt.idx
           /\ page' = IF nxt.pc = "idle" THEN Cards(shown') ELSE page
    /\ UNCHANGED <<token, now, fired, storeVars, dataVars, routeVars>>

\* render_index_card (lines 496-538) for the index the loop is at
Card(ev, outcome) ==
    /\ pc = "card"
    /\ Reveals(ev)
    /\ ev # NoEvent => ev.name = INDEX[idx].name
    /\ LET name  == INDEX[idx].name
           d1    == AfterParameters(db, name, ev)
           d2    == AfterAddNote(d1, name, ev)
           d3    == AfterListSort(d2, name)
           d4    == AfterNotesList(d3, name, ev, editMode)
           saved == CASE ParamChanged(db, name, ev) -> <<d1>>
                      [] AddSubmitted(name, ev) -> <<d2>>
                      [] DeleteClicked(d3, name, ev, editMode) -> <<d4>>
                      [] SaveClicked(d3, name, ev, editMode) -> <<d4>>
                      [] OTHER -> <<>>
           rerun == ListReruns(d3, name, ev, editMode)
           nxt   == AfterCard(idx)
       IN  /\ db' = d4
           /\ disk' = IF saved = <<>> THEN disk ELSE Save(saved[1], disk, outcome)
           /\ lastWrite' = IF saved = <<>> THEN lastWrite
                            ELSE Wrote(lastWrite, disk', outcome,
                                       IF AddSubmitted(name, ev) \/ SaveClicked(d3, name, ev, editMode)
                                       THEN {"success"} ELSE {})
           /\ editMode' = EditModeAfter(d3, name, ev, editMode)
           /\ fired' = IF ev # NoEvent THEN ev ELSE fired
           /\ pc' = IF rerun THEN "start" ELSE nxt.pc
           /\ idx' = IF rerun THEN 0 ELSE nxt.idx
           /\ page' = IF ~rerun /\ nxt.pc = "idle" THEN Cards(shown) ELSE page
    /\ UNCHANGED <<shown, fetchVars, dataVars, routeVars>>

\* time passes
Tick ==
    /\ pc = "idle"
    /\ now + TICK <= MaxTicks * TICK
    /\ now' = now + TICK
    /\ UNCHANGED <<token, pro, cache, served, flushed, lastFetch, storeVars, runVars, dataVars, routeVars>>

-----------------------------------------------------------------------------
(* Specifications *)

TotalNotes(d) ==
    IF d = NoDb THEN 0
    ELSE LET RECURSIVE Sum(_)
             Sum(S) == IF S = {} THEN 0
                       ELSE LET n == CHOOSE n \in S : TRUE
                            IN  Len(d.notes[n]) + Sum(S \ {n})
         IN  Sum(DOMAIN d.notes)

\* A document an earlier session wrote.
EarlierDoc ==
    Dump([DefaultData EXCEPT !.supports[ZHONGGAI] = 3100,
                             !.notes[ZHONGGAI] = << [date |-> 1, content |-> "a"] >>])

\* ---- SpecData: one adapter applied to one provider response ----
DataSpecInit ==
    /\ adapter \in Adapters /\ df \in Responses
    /\ series = None /\ metrics = None /\ stage = "raw"
    /\ rq = None /\ routed = None
    /\ token = FALSE /\ pro = FALSE /\ cache = <<>> /\ now = 0
    /\ served = <<>> /\ flushed = <<>> /\ lastFetch = NoCall
    /\ db = NoDb /\ disk = Absent /\ editMode = {} /\ lastWrite = NoWrite(Absent)
    /\ pc = "off" /\ idx = 0 /\ fired = NoEvent /\ page = NoPage /\ shown = <<>>

DataNext == Normalize \/ Extract

SpecData == DataSpecInit /\ [][DataNext]_vars

\* ---- SpecRoute: fetch_index_data called once on arbitrary arguments ----
RouteInit ==
    /\ rq \in [name : RouteNames, symbol : RouteCodes,
               token : BOOLEAN, pro : BOOLEAN, initOk : BOOLEAN,
               resp : {[a \in Adapters |-> Response(a, IF a = "etf" THEN k[2] ELSE k[1])] :
                       k \in ResponseKinds \X ResponseKinds}]
    /\ rq.pro => rq.token
    /\ routed = NotRouted
    /\ adapter = "a_share" /\ df = Raise /\ series = None /\ metrics = None /\ stage = "off"
    /\ token = FALSE /\ pro = FALSE /\ cache = <<>> /\ now = 0
    /\ served = <<>> /\ flushed = <<>> /\ lastFetch = NoCall
    /\ db = NoDb /\ disk = Absent /\ editMode = {} /\ lastWrite = NoWrite(Absent)
    /\ pc = "off" /\ idx = 0 /\ fired = NoEvent /\ page = NoPage /\ shown = <<>>

RouteNext == RouteCall

SpecRoute == RouteInit /\ [][RouteNext]_vars

\* The process starts: nothing cached, no session, the file as an earlier
\* session left it.
AppInit(tokens, disks) ==
    /\ token \in tokens
    /\ pro = FALSE
    /\ cache = [i \in 1..N |-> NoEntry]
    /\ now = 0
    /\ served = [i \in 1..N |-> NoCall]
    /\ flushed = [i \in 1..N |-> FALSE]
    /\ lastFetch = NoCall
    /\ db = NoDb
    /\ disk \in disks
    /\ editMode = {}
    /\ lastWrite = NoWrite(disk)
    /\ pc = "idle"
    /\ idx = 0
    /\ fired = NoEvent
    /\ page = NoPage
    /\ shown = [i \in 1..N |-> NotYet]
    /\ adapter = "a_share" /\ df = Raise /\ series = None /\ metrics = None /\ stage = "off"
    /\ rq = None /\ routed = None

\* ---- Spec: the fetch layer under changing providers and a moving clock;
\*      the user loads the page, forces a refresh, edits a support value ----
Refresh == Ev("refresh", "", 0, 0, 0, 0, "")
Backup == Ev("backup", "", 0, 0, 0, 0, "")

Init == AppInit(BOOLEAN, {Absent})

\* The providers' answers and the client construction are drawn only where
\* the call reads them.
Next ==
    \/ Rerun
    \/ Start
    \/ \E ev \in {NoEvent, Refresh}, initOk \in BOOLEAN :
            /\ (~token \/ pro) => initOk
            /\ Sidebar(ev, initOk, "ok")
    \/ \E k1, k2 \in ResponseKinds, initOk \in BOOLEAN :
            /\ pc = "fetch"
            /\ Fresh(cache[idx], now) =>
                  /\ initOk /\ k1 \in {"raise", "goodA"}
                  /\ INDEX[idx].name = ZHONGGAI => k2 = k1
            /\ INDEX[idx].name # ZHONGGAI => (k2 = "raise" /\ initOk)
            /\ (~token \/ pro) => initOk
            /\ Fetch(Answers(k1, k2), initOk)
    \/ Card(NoEvent, "ok")
    \/ Tick

Spec == Init /\ [][Next]_vars

\* ---- SpecStore: the threshold and journal store under every widget, with
\*      writes that may fail; providers answer or fail, no credential ----
\* The journal widgets are exercised on one card; the support input on
\* every card.
JournalName == ZHONGGAI

StoreEvents ==
    {NoEvent}
    \cup {Ev("threshold", n, 0, 3100, DEFAULT_ATMOSPHERE, 0, "") : n \in Names}
    \cup {Ev("threshold", JournalName, 0, DEFAULT_SUPPORT, 4100, 0, "")}
    \cup {Ev("add", JournalName, 0, 0, 0, d, c) : d \in {1, 2}, c \in {" a", " "}}
    \cup {Ev(t, JournalName, p, 0, 0, 0, "") :
             t \in {"edit", "delete", "cancel"}, p \in 1..MaxNotes}
    \cup {Ev("save", JournalName, p, 0, 0, 0, c) : p \in 1..MaxNotes, c \in {"c ", " "}}

StoreInit == AppInit({FALSE}, {Absent, EarlierDoc})

\* Every write succeeds.  The mainland provider answers or fails; the fund
\* source answers.
StoreNext ==
    \/ Rerun
    \/ NewSession
    \/ Start
    \/ \E ev \in {NoEvent, Backup} : Sidebar(ev, TRUE, "ok")
    \/ \E k1, k2 \in {"raise", "goodA"} :
            /\ pc = "fetch"
            /\ Fresh(cache[idx], now) => (k1 = "raise" /\ k2 = "raise")
            /\ INDEX[idx].name = ZHONGGAI => k1 = "raise"
            /\ INDEX[idx].name # ZHONGGAI => k2 = "raise"
            /\ Fetch(Answers(k1, k2), TRUE)
    \/ \E ev \in StoreEvents :
            /\ ev.type = "add" => TotalNotes(db) < MaxNotes
            /\ Card(ev, "ok")

SpecStore == StoreInit /\ [][StoreNext]_vars

\* ---- SpecFail: the store under edits any of whose writes may fail, before
\*      the file is opened or while the document is written ----
FailEvents ==
    {NoEvent,
     Ev("threshold", JournalName, 0, 3100, DEFAULT_ATMOSPHERE, 0, ""),
     Ev("add", JournalName, 0, 0, 0, 1, " a"),
     Ev("edit", JournalName, 1, 0, 0, 0, ""),
     Ev("delete", JournalName, 1, 0, 0, 0, ""),
     Ev("save", JournalName, 1, 0, 0, 0, "c ")}

FailInit == AppInit({FALSE}, {Absent, EarlierDoc})

FailNext ==
    \/ Rerun
    \/ NewSession
    \/ Start
    \/ \E ev \in {NoEvent, Backup}, outcome \in SaveOutcomes :
            /\ ev = NoEvent => outcome = "ok"
            /\ Sidebar(ev, TRUE, outcome)
    \/ Fetch(Answers("goodA", "goodA"), TRUE)
    \/ \E ev \in FailEvents, outcome \in SaveOutcomes :
            /\ ev.type = "add" => TotalNotes(db) < MaxNotes
            /\ ev.type \in {"load", "edit"} => outcome = "ok"
            /\ Card(ev, outcome)

SpecFail == FailInit /\ [][FailNext]_vars

-----------------------------------------------------------------------------
(* Properties of fetch_index_data as a function of its arguments, of the   *)
(* client state and of the providers' answers (SpecRoute).                 *)

IsSpecial == rq.name = ZHONGGAI

\* what adapter a returns for the provider answer of this request
RouteReturn(a) == AdapterReturn(a, rq.resp[a])

\* The official source is unavailable: no credential, no client, or the
\* official fetch raised or came back empty (the adapter returns None).
OfficialUnavailable == ~rq.token \/ ~RouteInst \/ RouteReturn("tushare") = None

\* C1: for the special index, whenever the official source is unavailable
\* (credential missing, empty official result, official fetch raising), the
\* call invokes the fund adapter, last, and when that adapter succeeds the
\* call returns its metrics with the fund source label ("ETF").
C1_ProxyFallback ==
    (routed.kind = "Routed" /\ IsSpecial /\ OfficialUnavailable)
    => /\ Len(routed.calls) >= 1
       /\ routed.calls[Len(routed.calls)] = "etf"
       /\ IsMetrics(RouteReturn("etf"))
          => /\ routed.result = RouteReturn("etf")
             /\ routed.result.source = "ETF"

\* A client exists, the official fetch raised, the fund fetch succeeded.
C1_Witness ==
    /\ routed.kind = "Routed" /\ IsSpecial
    /\ rq.token /\ RouteInst /\ rq.resp["tushare"] = Raise
    /\ routed.calls = <<"tushare", "etf">>
    /\ IsMetrics(routed.result) /\ routed.result.source = "ETF"

\* The official adapter is invoked first; when it succeeds its metrics are
\* returned labelled "Tushare" and the fund adapter is not invoked.
OfficialFirst ==
    /\ Len(routed.calls) >= 1
    /\ routed.calls[1] = "tushare"
    /\ IsMetrics(RouteReturn("tushare"))
       => /\ routed.result = RouteReturn("tushare")
          /\ routed.result.source = "Tushare"
          /\ \A k \in 1..Len(routed.calls) : routed.calls[k] # "etf"

\* C2 as stated: for the special index with a configured credential the
\* official adapter is tried first, and its success is returned labelled
\* "Tushare" without the fund adapter being invoked.
C2_Original ==
    (routed.kind = "Routed" /\ IsSpecial /\ rq.token) => OfficialFirst

\* C2: for the special index with a configured credential from which
\* get_instance() obtained a client, the official adapter is tried first,
\* and its success is returned labelled "Tushare" without the fund adapter
\* being invoked.
C2_OfficialFirst ==
    (routed.kind = "Routed" /\ IsSpecial /\ rq.token /\ RouteInst) => OfficialFirst

\* The official fetch succeeded and was the only one.
C2_Witness ==
    /\ routed.kind = "Routed" /\ IsSpecial /\ rq.token /\ RouteInst
    /\ routed.calls = <<"tushare">>
    /\ IsMetrics(routed.result) /\ routed.result.source = "Tushare"
    /\ IsMetrics(RouteReturn("etf"))

\* the sources configured for the index of this request
Sources == IF IsSpecial THEN {"tushare", "etf"} ELSE {RouteByCode(rq.symbol)}

\* source a failed or yielded no usable rows in this request
SourceFailed(a) == RouteReturn(a) = None \/ (a = "tushare" /\ ~RouteInst)

\* C3: for every index and every combination of provider answers (success,
\* empty table, malformed schema, exception) the call returns metrics or
\* None, never an exception, and None only when every source configured for
\* the index failed or yielded no usable rows.
C3_NeverRaises ==
    routed.kind = "Routed"
    => /\ routed.result.kind \in {"Metrics", "None"}
       /\ routed.result = None => \A a \in Sources : SourceFailed(a)

\* Both sources of the special index were asked and both failed, one by an
\* exception and one on a table without a close column.
C3_Witness ==
    /\ routed.kind = "Routed" /\ IsSpecial /\ RouteInst
    /\ rq.resp["tushare"] = Raise
    /\ rq.resp["etf"] # Raise /\ ~Empty(rq.resp["etf"])
    /\ routed.calls = <<"tushare", "etf">>
    /\ routed.result = None

\* C4: the special name is checked first whatever the code; otherwise a
\* code with prefix "hk" goes to the Hong Kong adapter; otherwise a code goes
\* to the US adapter if and only if its prefix is "gb."; every other code
\* goes to the domestic adapter; exactly one chain is selected.
C4_Routing ==
    routed.kind = "Routed"
    => IF IsSpecial
       THEN routed.calls \in {<<"tushare">>, <<"tushare", "etf">>, <<"etf">>}
       ELSE IF StartsWith(rq.symbol, <<"h", "k">>) THEN routed.calls = <<"hongkong">>
       ELSE IF StartsWith(rq.symbol, <<"g", "b", ".">>) THEN routed.calls = <<"us">>
       ELSE routed.calls = <<"a_share">>

-----------------------------------------------------------------------------
(* Properties of cleaning and extraction over the providers' tables        *)
(* (SpecData).  series is the cleaned series the adapter extracted from.   *)

Extracted == stage = "done" /\ IsMetrics(metrics)

SetMax(S) == CHOOSE x \in S : \A y \in S : y <= x
SetMin(S) == CHOOSE x \in S : \A y \in S : x <= y

Highs    == {series.rows[r].high : r \in 1..Len(series.rows)} \ {NaN}
Lows     == {series.rows[r].low : r \in 1..Len(series.rows)} \ {NaN}
DatesOf  == {series.rows[r].date : r \in 1..Len(series.rows)}
DatesOfHigh(v) == {series.rows[r].date : r \in {q \in 1..Len(series.rows) : series.rows[q].high = v}}
DatesOfLow(v)  == {series.rows[r].date : r \in {q \in 1..Len(series.rows) : series.rows[q].low = v}}

\* C7: for every non-empty cleaned series, in whatever row order the
\* provider delivered it, the high value is the maximum of high paired with
\* the earliest date achieving it, and the low value is the minimum of low
\* paired with the earliest date achieving it.
C7_ExtremesEarliest ==
    Extracted
    => /\ metrics.hv = SetMax(Highs)
       /\ metrics.hd = SetMin(DatesOfHigh(metrics.hv))
       /\ metrics.lv = SetMin(Lows)
       /\ metrics.ld = SetMin(DatesOfLow(metrics.lv))

\* C8: for every adapter and every row order of the raw table, current is
\* the close of the row with the most recent date in the retained series.
C8_CurrentMostRecent ==
    Extracted
    => \E r \in 1..Len(series.rows) :
          /\ series.rows[r].date = SetMax(DatesOf)
          /\ series.rows[r].close = metrics.cur

\* the series an adapter passed to _extract_metrics
Normalized == stage \in {"cleaned", "done"} /\ series.kind = "Frame"

\* C15: for every adapter, every row of the series metrics are extracted
\* from is dated within [now - LOOKBACK_YEARS, now]; older rows and rows
\* dated after now never contribute.
C15_WithinLookback ==
    Extracted
    => \A r \in 1..Len(series.rows) :
          CutoffDate <= series.rows[r].date /\ series.rows[r].date <= Today

\* C16: for every raw table the normalized series has its dates in
\* ascending order and no date twice (of several rows for one date a single
\* one, the last, remains).
C16_AscendingNoDuplicates ==
    Normalized
    => \A r, q \in 1..Len(series.rows) :
          r < q => series.rows[r].date < series.rows[q].date

-----------------------------------------------------------------------------
(* Properties of the memo around fetch_index_data (Spec).  lastFetch is    *)
(* the most recent call; lastFetch.prior tells what the previous call for  *)
(* the same index returned and when the adapters were last invoked for it. *)

Repeated == lastFetch.kind = "Call" /\ lastFetch.prior.kind = "Call"

\* the most recent call lies in the window opened by the adapters' last
\* invocation for its index
InWindow == lastFetch.at - lastFetch.prior.fetchedAt < CACHE_TTL

\* C5: of two calls for the same index within the 600 s window with no
\* forced refresh in between, the second invokes no adapter and returns
\* what the first returned.
C5_CacheIdempotent ==
    (Repeated /\ InWindow /\ ~lastFetch.flushed)
    => /\ lastFetch.calls = <<>>
       /\ lastFetch.result = lastFetch.prior.result

\* A second call, later than the first and inside the window, served
\* metrics from the memo.
C5_Witness ==
    /\ Repeated /\ InWindow /\ ~lastFetch.flushed
    /\ lastFetch.at > lastFetch.prior.fetchedAt
    /\ lastFetch.calls = <<>>
    /\ IsMetrics(lastFetch.result)

\* C6: an entry stops being served only through a forced refresh or the
\* expiry of its window; a forced refresh drops every entry at once, never
\* a subset; the next call for any index after a forced refresh invokes the
\* adapters of that index again.
C6_Invalidation ==
    /\ []((Repeated /\ lastFetch.calls # <<>>) => (lastFetch.flushed \/ ~InWindow))
    /\ []((lastFetch.kind = "Call" /\ lastFetch.flushed) => lastFetch.calls # <<>>)
    /\ [][(\E i \in 1..N : cache[i] # NoEntry /\ cache'[i] = NoEntry)
            => \A j \in 1..N : cache'[j] = NoEntry /\ flushed'[j]]_vars

\* After a forced refresh inside the window, both indices were fetched from
\* their adapters again.
C6_Witness ==
    /\ Repeated /\ InWindow /\ lastFetch.flushed
    /\ lastFetch.i = N
    /\ lastFetch.calls # <<>>
    /\ served[1].kind = "Call" /\ served[1].fetchedAt = now /\ now > 0

-----------------------------------------------------------------------------
(* Properties of the store under user edits whose writes succeed           *)
(* (SpecStore).                                                            *)

\* C9: a call that returns None changes neither the thresholds and notes in
\* memory nor the document on disk nor what was returned or memoised for
\* any other index, and the loop goes on to the next index.
C9_FailureIsolated ==
    [][(pc = "fetch" /\ shown'[idx] = None)
        => /\ db' = db /\ disk' = disk /\ editMode' = editMode
           /\ \A j \in (1..N) \ {idx} :
                  shown'[j] = shown[j] /\ cache'[j] = cache[j] /\ served'[j] = served[j]
           /\ pc' = IF idx < N THEN "fetch" ELSE "idle"
           /\ idx' = IF idx < N THEN idx + 1 ELSE 0]_vars

\* The store holds a note and a threshold edited in an earlier run; in this
\* run the first index failed and the second was still served and rendered.
C9_Witness ==
    /\ pc = "idle" /\ fired = NoEvent
    /\ shown[1] = None /\ IsMetrics(shown[2])
    /\ db # NoDb /\ disk = Dump(db)
    /\ db.notes[JournalName] # <<>>
    /\ db.atmospheres[JournalName] = 4100

\* C10: when every write succeeds, at the end of every operation the
\* document on disk reads back as the thresholds and notes in memory.
C10_WriteThrough == db # NoDb => Load(disk) = db

\* Two notes were added, a threshold was edited and a note was rewritten,
\* and the document on disk is the state in memory.
C10_Witness ==
    /\ db # NoDb /\ IsDoc(disk) /\ Load(disk) = db
    /\ Len(db.notes[JournalName]) = 2
    /\ db.notes[JournalName][1].date > db.notes[JournalName][2].date
    /\ db.atmospheres[JournalName] = 4100

\* C17: a None result is memoised like metrics: once a call for an index
\* returned None, every further call for it inside the window and without a
\* forced refresh returns None and invokes no adapter, whether or not the
\* providers would deliver metrics by then.
C17_NegativeCaching ==
    (Repeated /\ InWindow /\ ~lastFetch.flushed /\ lastFetch.prior.result = None)
    => /\ lastFetch.calls = <<>>
       /\ lastFetch.result = None

\* A later call inside the window was answered None from the memo although
\* the adapters would have delivered metrics.
C17_Witness ==
    /\ Repeated /\ InWindow /\ ~lastFetch.flushed
    /\ lastFetch.prior.result = None
    /\ lastFetch.at > lastFetch.prior.fetchedAt
    /\ lastFetch.live
    /\ lastFetch.calls = <<>> /\ lastFetch.result = None

-----------------------------------------------------------------------------
(* Further properties of the store under edits whose writes succeed        *)
(* (SpecStore).                                                            *)

\* C13: every store state reachable by user edits, saved and then loaded,
\* comes back with the same supports, atmospheres and notes: the same keys,
\* the same values, the notes in the same order.
C13_RoundTrip == db # NoDb => Load(Save(db, disk, "ok")) = db

\* A new session has loaded a document holding an edited threshold and two
\* different notes, which only an earlier session's saves can have written.
C13_Witness ==
    /\ db # NoDb /\ page = NoPage
    /\ Len(db.notes[JournalName]) = 2
    /\ db.notes[JournalName][1] # db.notes[JournalName][2]
    /\ db.atmospheres[JournalName] = 4100
    /\ db = Load(disk)

\* newest first by date
NewestFirst(notes) ==
    \A j \in 1..(Len(notes) - 1) : notes[j].date >= notes[j + 1].date

\* the journal of the index whose card handled this step's interaction
JournalBefore == db.notes[fired'.name]
JournalAfter  == db'.notes[fired'.name]

\* the step handles the interaction of the given type
Handles(type) == fired = NoEvent /\ fired' # NoEvent /\ fired'.type = type

\* C14: after any sequence of additions, updates and deletions every
\* journal is ordered newest first, in memory and on disk; an update
\* replaces the content of exactly the entry at the given position and a
\* deletion removes exactly that entry, every other entry keeping its date,
\* its content and its place in the order, in this and every other journal.
C14_JournalOrder ==
    /\ [](db # NoDb => \A n \in Names :
              NewestFirst(db.notes[n]) /\ NewestFirst(Load(disk).notes[n]))
    /\ [][Handles("save") /\ StripText(fired'.content) # ""
            => /\ Len(JournalAfter) = Len(JournalBefore)
               /\ \A j \in 1..Len(JournalBefore) :
                     /\ JournalAfter[j].date = JournalBefore[j].date
                     /\ JournalAfter[j].content =
                           IF j = fired'.pos THEN StripText(fired'.content)
                           ELSE JournalBefore[j].content
               /\ \A n \in Names \ {fired'.name} : db'.notes[n] = db.notes[n]
               /\ Load(disk').notes = db'.notes]_vars
    /\ [][Handles("delete")
            => /\ Len(JournalAfter) = Len(JournalBefore) - 1
               /\ \A j \in 1..Len(JournalAfter) :
                     JournalAfter[j] = JournalBefore[IF j < fired'.pos THEN j ELSE j + 1]
               /\ \A n \in Names \ {fired'.name} : db'.notes[n] = db.notes[n]
               /\ Load(disk').notes = db'.notes]_vars

\* The second of two notes of different dates has just been rewritten: the
\* first is as it was added, the order is kept and the file holds both.
C14_Witness ==
    /\ db # NoDb
    /\ fired.type = "save" /\ fired.pos = 2
    /\ Len(db.notes[JournalName]) = 2
    /\ db.notes[JournalName][1].date > db.notes[JournalName][2].date
    /\ db.notes[JournalName][2].content = "c"
    /\ db.notes[JournalName][1].content # "c"
    /\ disk = Dump(db)

-----------------------------------------------------------------------------
(* Properties of the store when writes may fail (SpecFail).                *)

\* C11: a write that fails, before, during or after serialisation, leaves
\* the document of the last successful write intact and loadable: a load
\* returns the state of the last successful write.
C11_FailedWriteKeepsFile == Load(disk) = Load(lastWrite.good)

\* this interaction's save failed
WriteFailed == lastWrite.outcome \in {"fail_open", "fail_write"}

\* C12: when a write fails the user is shown the failure and no success
\* message, the session goes on, the store in memory keeps the edit, and a
\* later write that succeeds persists it.
C12_FailureReported ==
    /\ WriteFailed
       => /\ "error" \in lastWrite.msgs
          /\ "success" \notin lastWrite.msgs
          /\ db # NoDb
          /\ fired.type = "threshold"
             => /\ db.supports[fired.name] = fired.sup
                /\ db.atmospheres[fired.name] = fired.atm
    /\ lastWrite.outcome = "ok" => Load(disk) = db

====
